---- MODULE Spec2Model ----
(***************************************************************************)
(* Model of libabsinthium's generic playlist container (src/src/lib.rs):   *)
(* struct Playlist { entries: RefCell<Vec<E>>, info: RefCell<P> } and its   *)
(* operations from_parts, get_metadata, add_entry, remove_entry, count and  *)
(* merge, together with the two operations that trait PlaylistFormat only   *)
(* declares (add_entry_at, dedup_entries).                                  *)
(*                                                                         *)
(* A program holds playlists in named bindings (Slots).  A binding is       *)
(* "unbound" before a value is bound to it, "live" while it owns a          *)
(* playlist, and "moved" after its playlist was passed by value to merge.   *)
(* Vec indices are 0-based as in the source; TLA+ sequences are 1-based.    *)
(*                                                                         *)
(* The plain-text format (src/src/plaintext.rs) is modelled next to it:     *)
(* PlainEntry objects at fixed addresses (plain), each with its pub         *)
(* RefCell<Option<PlainMetadata>>, and PlainMetadata values that point to   *)
(* their parent entry.                                                      *)
(***************************************************************************)
EXTENDS Integers, Sequences, FiniteSets, TLC

VARIABLES
    playlists,  \* binding -> the playlist it holds
    plain,      \* address -> the PlainEntry object at that address
    last,       \* the most recent call
    panicked    \* a panic has ended the program

vars == <<playlists, plain, last, panicked>>

(* ------------------------------ bounds --------------------------------- *)

\* longest entry vector explored in Spec (three bindings, merge)
MaxLen == 3
\* longest entry vector explored in SpecSeq (one binding, no merge)
MaxSeq == 4
\* most Ref guards a caller keeps on one entry's metadata cell in SpecPlain
MaxGuards == 2

(* ------------------------------ values --------------------------------- *)

Slots == {"X", "Y", "M"}

\* values of the type parameter P (playlist info)
Infos == {"p1", "p2"}

NoInfo == "-"

NoSlot == "-"

\* a value of the type parameter E: ordinal and reference text
MkEntry(num, fname) == [num |-> num, fname |-> fname]

NoEntry == MkEntry(0, "")

\* entry values used with three bindings
PlaylistEntries == {MkEntry(1, "a"), MkEntry(2, "b")}

\* entry values used with one binding: A, A' (same reference as A), B, C
SeqEntries == {MkEntry(1, "a"), MkEntry(2, "b"), MkEntry(3, "a"), MkEntry(4, "c")}

\* all sequences over S of length at most n
SeqsUpTo(S, n) == UNION {[1..k -> S] : k \in 0..n}

(* ------------------------------ RefCell -------------------------------- *)

\* borrow = 0: not borrowed; borrow > 0: that many shared borrows;
\* borrow = -1: mutably borrowed
RefCell_new(v) == [borrow |-> 0, value |-> v]

\* RefCell::borrow panics when the cell is mutably borrowed
CanBorrow(cell) == cell.borrow >= 0

\* RefCell::borrow_mut panics when the cell is borrowed at all
CanBorrowMut(cell) == cell.borrow = 0

\* RefCell::clone borrows the cell, clones the value into a new cell
RefCell_clone(cell) == RefCell_new(cell.value)

\* the cell while a Ref guard obtained by RefCell::borrow is alive
RefCell_borrow(cell) == [cell EXCEPT !.borrow = @ + 1]

\* the cell while the RefMut guard obtained by RefCell::borrow_mut is alive
RefCell_borrow_mut(cell) == [cell EXCEPT !.borrow = -1]

\* the cell after a Ref guard went out of scope
Ref_drop(cell) == [cell EXCEPT !.borrow = @ - 1]

\* mem::forget on the guard: the borrow is never given back
RefMut_forget(cell) == cell

\* the cell after the RefMut guard went out of scope (also when unwinding)
RefMut_drop(cell) == [cell EXCEPT !.borrow = 0]

(* -------------------------------- Vec ---------------------------------- *)

\* Vec::capacity of a vector that grew by pushes (0, then 4, then doubling)
Vec_capacity(v) == IF Len(v) = 0 THEN 0 ELSE IF Len(v) <= 4 THEN 4 ELSE 8

Vec_len(v) == Len(v)

\* Vec::insert(0, e)
Vec_push_front(v, e) == <<e>> \o v

Vec_push(v, e) == Append(v, e)

\* Vec::remove(i) panics unless i < len
Vec_remove_ok(v, i) == i < Len(v)

\* the vector left by Vec::swap_remove(i): the last element fills the hole
Vec_remove_swap(v, i) ==
    IF i + 1 = Len(v) THEN SubSeq(v, 1, i)
    ELSE SubSeq(v, 1, i) \o <<v[Len(v)]>> \o SubSeq(v, i + 2, Len(v) - 1)

\* the vector left by Vec::remove(i): later elements shift left
Vec_remove(v, i) == SubSeq(v, 1, i) \o SubSeq(v, i + 2, Len(v))

\* the element returned by Vec::remove(i)
Vec_removed(v, i) == v[i + 1]

(* ------------------------------ Playlist ------------------------------- *)

Unbound == [state |-> "unbound", entries |-> RefCell_new(<<>>), info |-> RefCell_new(NoInfo)]

\* a binding whose playlist was moved into a call and dropped there
Moved == [state |-> "moved", entries |-> RefCell_new(<<>>), info |-> RefCell_new(NoInfo)]

from_parts(info, entries) ==
    [state |-> "live", entries |-> RefCell_new(entries), info |-> RefCell_new(info)]

Live(c) == playlists[c].state = "live"

EntriesOf(c) == playlists[c].entries.value

InfoOf(c) == playlists[c].info.value

\* the record of the most recent call: operation, receiver, arguments (other:
\* the binding passed by value, arg: the playlist it held), how the call
\* ended, what it returned (n: integer, e: entry, p: info, slot: the binding
\* that received a returned playlist), and prev: what the directly preceding
\* call returned when it was the same operation on the same receiver
\* For calls on plain-text entries and metadata: self (and other) are the
\* addresses of the entries concerned, md is the Option<PlainMetadata> passed
\* or returned, s a returned title, ref a returned reference, b a returned bool
NoCall ==
    [op |-> "none", self |-> NoSlot, other |-> NoSlot, arg |-> Unbound, index |-> -1,
     entry |-> NoEntry, outcome |-> "ok", n |-> -1, e |-> NoEntry, p |-> NoInfo,
     slot |-> NoSlot, prev |-> -1, md |-> <<>>, s |-> "", ref |-> <<>>, b |-> FALSE]

Call(op, self) == [NoCall EXCEPT !.op = op, !.self = self]

Panic(call) == [call EXCEPT !.outcome = "panic"]

(* ------------------------------ operations ----------------------------- *)

get_metadata(c) ==
    /\ ~panicked
    /\ Live(c)
    /\ IF CanBorrow(playlists[c].info)
       THEN /\ playlists' = [playlists EXCEPT ![c].info = Ref_drop(RefCell_borrow(@))]
            /\ last' = [Call("get_metadata", c) EXCEPT !.p = InfoOf(c)]
            /\ panicked' = FALSE
       ELSE /\ last' = Panic(Call("get_metadata", c))
            /\ panicked' = TRUE
            /\ UNCHANGED playlists
    /\ UNCHANGED plain

\* as add_entry, with one entry vector shared by all playlists
add_entry_shared(c, entry) ==
    LET call == [Call("add_entry", c) EXCEPT !.entry = entry] IN
    /\ ~panicked
    /\ Live(c)
    /\ playlists' = [d \in Slots |->
                        IF Live(d)
                        THEN [playlists[d] EXCEPT !.entries.value = Vec_push(@, entry)]
                        ELSE playlists[d]]
    /\ last' = call
    /\ panicked' = FALSE
    /\ UNCHANGED plain

add_entry(c, entry) ==
    LET call == [Call("add_entry", c) EXCEPT !.entry = entry] IN
    /\ ~panicked
    /\ Live(c)
    /\ IF CanBorrowMut(playlists[c].entries)
       THEN /\ playlists' =
                 [playlists EXCEPT ![c].entries =
                     RefMut_drop([RefCell_borrow_mut(@) EXCEPT !.value = Vec_push(@, entry)])]
            /\ last' = call
            /\ panicked' = FALSE
       ELSE /\ last' = Panic(call)
            /\ panicked' = TRUE
            /\ UNCHANGED playlists
    /\ UNCHANGED plain

remove_entry(c, index) ==
    LET call == [Call("remove_entry", c) EXCEPT !.index = index] IN
    /\ ~panicked
    /\ Live(c)
    /\ IF CanBorrowMut(playlists[c].entries) /\ Vec_remove_ok(EntriesOf(c), index)
       THEN /\ playlists' =
                 [playlists EXCEPT ![c].entries =
                     RefMut_drop([RefCell_borrow_mut(@) EXCEPT !.value = Vec_remove(@, index)])]
            /\ last' = [call EXCEPT !.e = Vec_removed(EntriesOf(c), index)]
            /\ panicked' = FALSE
       ELSE \* a panic of Vec::remove unwinds through the RefMut guard
            /\ playlists' =
                 IF CanBorrowMut(playlists[c].entries)
                 THEN [playlists EXCEPT ![c].entries = RefMut_drop(RefCell_borrow_mut(@))]
                 ELSE playlists
            /\ last' = Panic(call)
            /\ panicked' = TRUE
    /\ UNCHANGED plain

count(c) ==
    /\ ~panicked
    /\ Live(c)
    /\ IF CanBorrow(playlists[c].entries)
       THEN /\ playlists' = [playlists EXCEPT ![c].entries = Ref_drop(RefCell_borrow(@))]
            /\ last' = [Call("count", c) EXCEPT !.n = Vec_len(EntriesOf(c))]
            /\ panicked' = FALSE
       ELSE /\ last' = Panic(Call("count", c))
            /\ panicked' = TRUE
            /\ UNCHANGED playlists
    /\ UNCHANGED plain

merge_entries_swapped(self, other) == other.entries.value \o self.entries.value

\* the entry vector merge collects:
\* self.entries.iter().chain(other.entries.iter()).cloned().collect()
merge_entries(self, other) == self.entries.value \o other.entries.value

merge_info_other(self, other) == RefCell_clone(other.info)

\* the info cell of the playlist merge builds: RefCell::clone(&self.info)
merge_info(self, other) == RefCell_clone(self.info)

\* as merge_bindings, with the receiver's entries moved out (mem::take)
merge_bindings_take(ps, c, o, r) ==
    [ps EXCEPT ![r] = [state |-> "live",
                       entries |-> RefCell_new(merge_entries(ps[c], ps[o])),
                       info |-> merge_info(ps[c], ps[o])],
               ![o] = Moved,
               ![c].entries.value = <<>>]

\* as merge_bindings, with the receiver's info moved out (RefCell::take)
merge_bindings_take_info(ps, c, o, r) ==
    [ps EXCEPT ![r] = [state |-> "live",
                       entries |-> RefCell_new(merge_entries(ps[c], ps[o])),
                       info |-> merge_info(ps[c], ps[o])],
               ![o] = Moved,
               ![c].info.value = NoInfo]

\* the bindings after `r = c.merge(o)`: r owns the new playlist, o was passed
\* by value and dropped when merge returned, c was only borrowed
merge_bindings(ps, c, o, r) ==
    [ps EXCEPT ![r] = [state |-> "live",
                       entries |-> RefCell_new(merge_entries(ps[c], ps[o])),
                       info |-> merge_info(ps[c], ps[o])],
               ![o] = Moved,
               ![c].entries = Ref_drop(RefCell_borrow(@)),
               ![c].info = Ref_drop(RefCell_borrow(@))]

merge(c, o, r) ==
    LET call == [Call("merge", c) EXCEPT !.other = o, !.arg = playlists[o], !.slot = r] IN
    /\ ~panicked
    /\ Live(c) /\ Live(o) /\ c # o
    /\ r \notin {c, o} /\ ~Live(r)
    /\ IF /\ CanBorrow(playlists[c].entries)
          /\ CanBorrow(playlists[o].entries)
          /\ CanBorrow(playlists[c].info)
       THEN /\ playlists' = merge_bindings(playlists, c, o, r)
            /\ last' = call
            /\ panicked' = FALSE
       ELSE /\ playlists' = [playlists EXCEPT ![o] = Moved]
            /\ last' = Panic(call)
            /\ panicked' = TRUE
    /\ UNCHANGED plain

(* ------------- operations declared by trait PlaylistFormat ------------- *)
(* add_entry_at and dedup_entries are declared (lib.rs:73-78, 91-92) but   *)
(* no type of the repository implements them; they are modelled from the   *)
(* specification of the container.                                          *)

Vec_insert(v, i, e) == SubSeq(v, 1, i) \o <<e>> \o SubSeq(v, i + 1, Len(v))

\* as add_entry_at, rejecting index = count()
add_entry_at_strict(c, entry, index) ==
    LET call == [Call("add_entry_at", c) EXCEPT !.entry = entry, !.index = index] IN
    /\ ~panicked
    /\ Live(c)
    /\ IF index < Len(EntriesOf(c))
       THEN /\ playlists' = [playlists EXCEPT
                               ![c].entries.value = Vec_insert(@, index, entry)]
            /\ last' = call
       ELSE /\ last' = [call EXCEPT !.outcome = "IndexError"]
            /\ UNCHANGED playlists
    /\ panicked' = FALSE
    /\ UNCHANGED plain

add_entry_at(c, entry, index) ==
    LET call == [Call("add_entry_at", c) EXCEPT !.entry = entry, !.index = index] IN
    /\ ~panicked
    /\ Live(c)
    /\ IF index <= Len(EntriesOf(c))
       THEN /\ playlists' = [playlists EXCEPT
                               ![c].entries.value = Vec_insert(@, index, entry)]
            /\ last' = call
       ELSE /\ last' = [call EXCEPT !.outcome = "IndexError"]
            /\ UNCHANGED playlists
    /\ panicked' = FALSE
    /\ UNCHANGED plain

\* the formatted info text of an entry's metadata (PlainMetadata::info)
InfoText(e) == ""

\* capability-defined equality of entries: equal reference and equal info text
EntryEq(a, b) == a.fname = b.fname /\ InfoText(a) = InfoText(b)

RECURSIVE Dedup_keep_last(_)
\* the entries of v that are equal to no later entry, in their order
Dedup_keep_last(v) ==
    IF v = <<>> THEN <<>>
    ELSE LET d == Dedup_keep_last(Tail(v))
             x == Head(v)
         IN  IF \E j \in 1..Len(d) : EntryEq(d[j], x) THEN d ELSE <<x>> \o d

RECURSIVE Dedup_adjacent(_)
\* Vec::dedup_by: only an entry equal to the one kept just before it goes
Dedup_adjacent(v) ==
    IF v = <<>> THEN <<>>
    ELSE LET d == Dedup_adjacent(SubSeq(v, 1, Len(v) - 1))
             x == v[Len(v)]
         IN  IF d # <<>> /\ EntryEq(d[Len(d)], x) THEN d ELSE Append(d, x)

RECURSIVE Dedup(_)
\* the entries of v that are equal to no earlier entry, in their order
Dedup(v) ==
    IF v = <<>> THEN <<>>
    ELSE LET d == Dedup(SubSeq(v, 1, Len(v) - 1))
             x == v[Len(v)]
         IN  IF \E j \in 1..Len(d) : EntryEq(d[j], x) THEN d ELSE Append(d, x)

dedup_entries(c) ==
    LET call == Call("dedup_entries", c)
        kept == Dedup(EntriesOf(c))
    IN  /\ ~panicked
        /\ Live(c)
        /\ playlists' = [playlists EXCEPT ![c].entries.value = kept]
        /\ last' = [call EXCEPT !.n = Len(EntriesOf(c)) - Len(kept),
                                !.prev = IF last.op = "dedup_entries" /\ last.self = c
                                         THEN last.n ELSE -1]
        /\ panicked' = FALSE
        /\ UNCHANGED plain

(* ------------------------------ plaintext ------------------------------ *)

\* the addresses of the PlainEntry objects
PlainAddrs == {"e1", "e2"}

\* reference texts, each as the sequence of its path segments
PlainRefs == {<<"song.mp3">>, <<"music", "song.mp3">>}

\* Option<T>: None, Some(x)
None == <<>>

Some(x) == <<x>>

\* struct PlainMetadata { parent: &PlainEntry }
PlainMetadata(parent) == [parent |-> parent]

PlainMetas == {PlainMetadata(a) : a \in PlainAddrs}

\* struct PlainEntry { num, fname, metadata: RefCell<Option<PlainMetadata>> }
PlainEntry(num, fname, md) == [num |-> num, fname |-> fname, metadata |-> RefCell_new(md)]

\* no PlainEntry object exists
NoPlain == [entries |-> <<>>, written |-> <<>>, latest |-> <<>>]

MetadataCell(a) == plain.entries[a].metadata

\* the final path segment of a reference text
Basename(ref) == IF ref = <<>> THEN "" ELSE ref[Len(ref)]

\* RefCell::replace(None)
RefCell_replace_none(cell, v) == RefMut_drop([RefCell_borrow_mut(cell) EXCEPT !.value = None])

\* RefCell::replace(v) on a cell that can be borrowed mutably
RefCell_replace(cell, v) == RefMut_drop([RefCell_borrow_mut(cell) EXCEPT !.value = v])

\* self.metadata.try_borrow().ok().map(|m| m.clone()).flatten()
metadata_value(cell) == IF CanBorrow(cell) THEN Ref_drop(RefCell_borrow(cell)).value ELSE None

\* PlainEntry::metadata
metadata(a) ==
    /\ ~panicked
    /\ last' = [Call("metadata", a) EXCEPT !.md = metadata_value(MetadataCell(a))]
    /\ panicked' = FALSE
    /\ UNCHANGED <<playlists, plain>>

\* PlainEntry::write_metadata: RefCell::replace panics on a borrowed cell
write_metadata(a, m) ==
    LET call == [Call("write_metadata", a) EXCEPT !.md = Some(m)] IN
    /\ ~panicked
    /\ IF CanBorrowMut(MetadataCell(a))
       THEN /\ plain' = [plain EXCEPT
                            !.entries[a].metadata = RefCell_replace(@, Some(m)),
                            !.written[a] = @ \cup {m},
                            !.latest[a] = Some(m)]
            /\ last' = call
            /\ panicked' = FALSE
       ELSE /\ last' = Panic(call)
            /\ panicked' = TRUE
            /\ UNCHANGED plain
    /\ UNCHANGED playlists

\* PlainEntry::entry_num is todo!()
entry_num(a) ==
    /\ ~panicked
    /\ last' = Panic(Call("entry_num", a))
    /\ panicked' = TRUE
    /\ UNCHANGED <<playlists, plain>>

\* PlainEntry::filename is todo!()
filename(a) ==
    /\ ~panicked
    /\ last' = Panic(Call("filename", a))
    /\ panicked' = TRUE
    /\ UNCHANGED <<playlists, plain>>

\* PlainMetadata::title returns Cow::from("")
PlainMetadata_title(m) == ""

\* PlainMetadata::info returns ""
PlainMetadata_info(m) == ""

\* eq comparing the parents' reference texts instead of their addresses
PlainMetadata_eq_by_reference(m1, m2) ==
    /\ PlainMetadata_info(m1) = PlainMetadata_info(m2)
    /\ plain.entries[m1.parent].fname = plain.entries[m2.parent].fname

\* PartialEq::eq: self.info() == other.info() && ptr::eq(self.parent, other.parent)
PlainMetadata_eq(m1, m2) ==
    /\ PlainMetadata_info(m1) = PlainMetadata_info(m2)
    /\ m1.parent = m2.parent

\* PartialEq::ne: !self.eq(other)
PlainMetadata_ne(m1, m2) == ~PlainMetadata_eq(m1, m2)

title(m) ==
    /\ ~panicked
    /\ last' = [Call("title", m.parent) EXCEPT !.s = PlainMetadata_title(m)]
    /\ panicked' = FALSE
    /\ UNCHANGED <<playlists, plain>>

eq(m1, m2) ==
    /\ ~panicked
    /\ last' = [Call("eq", m1.parent) EXCEPT !.other = m2.parent,
                                            !.b = PlainMetadata_eq(m1, m2)]
    /\ panicked' = FALSE
    /\ UNCHANGED <<playlists, plain>>

ne(m1, m2) ==
    /\ ~panicked
    /\ last' = [Call("ne", m1.parent) EXCEPT !.other = m2.parent,
                                            !.b = PlainMetadata_ne(m1, m2)]
    /\ panicked' = FALSE
    /\ UNCHANGED <<playlists, plain>>

\* a caller takes a Ref guard on the pub field: entry.metadata.borrow()
caller_borrow(a) ==
    /\ ~panicked
    /\ CanBorrow(MetadataCell(a))
    /\ plain' = [plain EXCEPT !.entries[a].metadata = RefCell_borrow(@)]
    /\ last' = Call("borrow", a)
    /\ UNCHANGED <<playlists, panicked>>

\* a caller takes the RefMut guard on the pub field: entry.metadata.borrow_mut()
caller_borrow_mut(a) ==
    /\ ~panicked
    /\ CanBorrowMut(MetadataCell(a))
    /\ plain' = [plain EXCEPT !.entries[a].metadata = RefCell_borrow_mut(@)]
    /\ last' = Call("borrow_mut", a)
    /\ UNCHANGED <<playlists, panicked>>

\* a guard the caller held goes out of scope
caller_drop(a) ==
    /\ ~panicked
    /\ MetadataCell(a).borrow # 0
    /\ plain' = [plain EXCEPT !.entries[a].metadata =
                     IF @.borrow > 0 THEN Ref_drop(@) ELSE RefMut_drop(@)]
    /\ last' = Call("drop", a)
    /\ UNCHANGED <<playlists, panicked>>

(* ---------------------------- specification ---------------------------- *)

\* Spec: bindings X and Y built by from_parts, M free to receive a merge
Init ==
    /\ \E px, py \in Infos :
         \E ex, ey \in SeqsUpTo(PlaylistEntries, MaxLen) :
            playlists = [c \in Slots |->
                            IF c = "X" THEN from_parts(px, ex)
                            ELSE IF c = "Y" THEN from_parts(py, ey)
                            ELSE Unbound]
    /\ plain = NoPlain
    /\ last = NoCall
    /\ panicked = FALSE

GetMetadata == \E c \in Slots : get_metadata(c)

AddEntry == \E c \in Slots, e \in PlaylistEntries :
               Len(EntriesOf(c)) < MaxLen /\ add_entry(c, e)

AddEntryAt == \E c \in Slots, e \in PlaylistEntries, i \in 0..(MaxLen + 1) :
                 Len(EntriesOf(c)) < MaxLen /\ add_entry_at(c, e, i)

RemoveEntry == \E c \in Slots, i \in 0..(MaxLen + 1) : remove_entry(c, i)

Count == \E c \in Slots : count(c)

DedupEntries == \E c \in Slots : dedup_entries(c)

Merge == \E c, o, r \in Slots :
            Len(EntriesOf(c)) + Len(EntriesOf(o)) <= MaxLen /\ merge(c, o, r)

Next ==
    \/ GetMetadata
    \/ AddEntry
    \/ AddEntryAt
    \/ RemoveEntry
    \/ Count
    \/ DedupEntries
    \/ Merge

Spec == Init /\ [][Next]_vars

\* SpecSeq: one binding X with longer entry vectors, no merge
InitSeq ==
    /\ \E px \in Infos :
         \E ex \in SeqsUpTo(SeqEntries, MaxSeq) :
            playlists = [c \in Slots |-> IF c = "X" THEN from_parts(px, ex) ELSE Unbound]
    /\ plain = NoPlain
    /\ last = NoCall
    /\ panicked = FALSE

SeqAddEntry == \E e \in SeqEntries :
                  Len(EntriesOf("X")) < MaxSeq /\ add_entry("X", e)

SeqAddEntryAt == \E e \in SeqEntries, i \in 0..(MaxSeq + 1) :
                    Len(EntriesOf("X")) < MaxSeq /\ add_entry_at("X", e, i)

SeqRemoveEntry == \E i \in 0..(MaxSeq + 1) : remove_entry("X", i)

SeqCount == count("X")

SeqDedupEntries == dedup_entries("X")

NextSeq ==
    \/ SeqAddEntry
    \/ SeqAddEntryAt
    \/ SeqRemoveEntry
    \/ SeqCount
    \/ SeqDedupEntries

SpecSeq == InitSeq /\ [][NextSeq]_vars

\* SpecPlain: two PlainEntry objects without metadata, no playlist
InitPlain ==
    /\ \E f1, f2 \in PlainRefs :
          plain = [entries |-> [a \in PlainAddrs |->
                                   IF a = "e1" THEN PlainEntry(1, f1, None)
                                   ELSE PlainEntry(2, f2, None)],
                   written |-> [a \in PlainAddrs |-> {}],
                   latest  |-> [a \in PlainAddrs |-> None]]
    /\ playlists = [c \in Slots |-> Unbound]
    /\ last = NoCall
    /\ panicked = FALSE

Metadata == \E a \in PlainAddrs : metadata(a)

WriteMetadata == \E a \in PlainAddrs, m \in PlainMetas : write_metadata(a, m)

EntryNum == \E a \in PlainAddrs : entry_num(a)

Filename == \E a \in PlainAddrs : filename(a)

Title == \E m \in PlainMetas : title(m)

Eq == \E m1, m2 \in PlainMetas : eq(m1, m2)

Ne == \E m1, m2 \in PlainMetas : ne(m1, m2)

CallerBorrow == \E a \in PlainAddrs :
                   MetadataCell(a).borrow < MaxGuards /\ caller_borrow(a)

CallerBorrowMut == \E a \in PlainAddrs : caller_borrow_mut(a)

CallerDrop == \E a \in PlainAddrs : caller_drop(a)

NextPlain ==
    \/ Metadata
    \/ WriteMetadata
    \/ EntryNum
    \/ Filename
    \/ Title
    \/ Eq
    \/ Ne
    \/ CallerBorrow
    \/ CallerBorrowMut
    \/ CallerDrop

SpecPlain == InitPlain /\ [][NextPlain]_vars

(* ------------------------------- claims -------------------------------- *)

\* C1: whenever r = c.merge(o) returns, r's entry vector is c's entries in
\* their order followed by o's entries in their order, nothing dropped or
\* deduplicated, and r.count() = c.count() + o.count().
MergeConcatenates ==
    [][(last'.op = "merge" /\ last'.outcome = "ok") =>
          LET x == EntriesOf(last'.self)
              y == EntriesOf(last'.other)
              m == playlists'[last'.slot].entries.value
          IN  /\ Vec_len(m) = Vec_len(x) + Vec_len(y)
              /\ \A i \in 1..Len(x) : m[i] = x[i]
              /\ \A i \in 1..Len(y) : m[Len(x) + i] = y[i]]_vars

\* a merge of two non-empty playlists that share an entry has returned, and
\* the shared entry occurs twice in the result
MergeConcatenatesWitness ==
    /\ last.op = "merge" /\ last.outcome = "ok"
    /\ EntriesOf(last.self) # <<>>
    /\ last.arg.entries.value # <<>>
    /\ \E i \in 1..Len(EntriesOf(last.self)) :
          \E j \in 1..Len(last.arg.entries.value) :
             /\ EntriesOf(last.self)[i] = last.arg.entries.value[j]
             /\ EntriesOf(last.slot)[i] = EntriesOf(last.slot)[Len(EntriesOf(last.self)) + j]

\* C2: whenever r = c.merge(o) returns, r.get_metadata() is the info of the
\* receiver c, also when o's info differs from it.
MergeKeepsReceiverInfo ==
    [][(last'.op = "merge" /\ last'.outcome = "ok") =>
          /\ playlists'[last'.slot].info.value = InfoOf(last'.self)
          /\ playlists'[last'.slot].info.value = playlists'[last'.self].info.value
          /\ (InfoOf(last'.other) # InfoOf(last'.self) =>
                 playlists'[last'.slot].info.value # InfoOf(last'.other))]_vars

\* a merge has returned whose argument carried another info than the receiver
MergeKeepsReceiverInfoWitness ==
    /\ last.op = "merge" /\ last.outcome = "ok"
    /\ last.arg.info.value # InfoOf(last.self)
    /\ InfoOf(last.slot) = InfoOf(last.self)

\* C3 as stated: after r = c.merge(o) both c and o are live and hold the
\* entries and info they held before the call.
MergeLeavesBothInputsIntact ==
    [][(last'.op = "merge" /\ last'.outcome = "ok") =>
          /\ playlists'[last'.self] = playlists[last'.self]
          /\ playlists'[last'.other] = playlists[last'.other]]_vars

\* C3 as amended: after r = c.merge(o) the receiver c is live with the entries
\* and info it held before; o was passed by value with its contents as they
\* were, and its binding is moved-from afterwards.
MergeLeavesReceiverIntact ==
    [][(last'.op = "merge" /\ last'.outcome = "ok") =>
          /\ playlists'[last'.self] = playlists[last'.self]
          /\ playlists'[last'.self].state = "live"
          /\ last'.arg = playlists[last'.other]
          /\ playlists'[last'.other].state = "moved"]_vars

\* a merge of two non-empty playlists has returned
MergeLeavesReceiverIntactWitness ==
    /\ last.op = "merge" /\ last.outcome = "ok"
    /\ Live(last.self) /\ EntriesOf(last.self) # <<>>
    /\ last.arg.state = "live" /\ last.arg.entries.value # <<>>
    /\ ~Live(last.other)

\* C4 as stated: remove_entry(index) with index >= count() ends with an
\* IndexError handed back to the caller, the program goes on, and the entry
\* vector is unchanged.
RemoveOutOfBoundsIsRecoverable ==
    [][(last'.op = "remove_entry" /\ last'.index >= Vec_len(EntriesOf(last'.self))) =>
          /\ last'.outcome = "IndexError"
          /\ ~panicked'
          /\ playlists' = playlists]_vars

\* C5: remove_entry(index) with index < count() returns the entry at index;
\* entries before index stay, entries after it move one place left in their
\* order, and count() drops by one.
RemoveShiftsLeft ==
    [][(last'.op = "remove_entry" /\ last'.index < Vec_len(EntriesOf(last'.self))) =>
          LET old == EntriesOf(last'.self)
              new == playlists'[last'.self].entries.value
              i   == last'.index
          IN  /\ last'.outcome = "ok"
              /\ last'.e = old[i + 1]
              /\ Vec_len(new) = Vec_len(old) - 1
              /\ \A j \in 1..i : new[j] = old[j]
              /\ \A j \in (i + 1)..Len(new) : new[j] = old[j + 1]
              /\ \A d \in Slots \ {last'.self} : playlists'[d] = playlists[d]]_vars

\* an entry was removed that had entries before it and a different entry
\* after it
RemoveShiftsLeftWitness ==
    /\ last.op = "remove_entry" /\ last.outcome = "ok"
    /\ last.index > 0
    /\ last.index < Len(EntriesOf(last.self))
    /\ EntriesOf(last.self)[last.index + 1] # last.e

\* C6: add_entry(e) never fails; afterwards the entry vector is the previous
\* one with e as its new last element and count() is one more.
AddEntryAppends ==
    [][last'.op = "add_entry" =>
          LET old == EntriesOf(last'.self)
              new == playlists'[last'.self].entries.value
          IN  /\ last'.outcome = "ok"
              /\ ~panicked'
              /\ Vec_len(new) = Vec_len(old) + 1
              /\ new[Len(new)] = last'.entry
              /\ \A j \in 1..Len(old) : new[j] = old[j]
              /\ \A d \in Slots \ {last'.self} : playlists'[d] = playlists[d]]_vars

\* an entry was added behind a different entry
AddEntryAppendsWitness ==
    /\ last.op = "add_entry" /\ last.outcome = "ok"
    /\ Len(EntriesOf(last.self)) >= 2
    /\ EntriesOf(last.self)[1] # last.entry

\* C7: add_entry_at(e, index) with index <= count() puts e at index and moves
\* every entry from index on one place right (index = count() appends); with
\* index > count() it ends with IndexError and changes nothing.
AddEntryAtInsertsOrFails ==
    [][last'.op = "add_entry_at" =>
          LET old == EntriesOf(last'.self)
              new == playlists'[last'.self].entries.value
              i   == last'.index
          IN  IF i <= Len(old)
              THEN /\ last'.outcome = "ok"
                   /\ Len(new) = Len(old) + 1
                   /\ new[i + 1] = last'.entry
                   /\ \A j \in 1..i : new[j] = old[j]
                   /\ \A j \in (i + 1)..Len(old) : new[j + 1] = old[j]
              ELSE /\ last'.outcome = "IndexError"
                   /\ playlists' = playlists]_vars

\* add_entry_at(e, count()) has appended behind two entries
AddEntryAtInsertsOrFailsWitness ==
    /\ last.op = "add_entry_at" /\ last.outcome = "ok"
    /\ last.index = Len(EntriesOf(last.self)) - 1
    /\ last.index >= 2

\* C8: the number count() returns is the length of the receiver's entry
\* vector, whatever calls came before.
CountIsLength ==
    (last.op = "count" /\ last.outcome = "ok") => last.n = Len(EntriesOf(last.self))

\* count() was called on a playlist produced by merge and returned 2
CountIsLengthWitness ==
    /\ last.op = "count" /\ last.outcome = "ok"
    /\ last.self = "M"
    /\ last.n = 2

\* C9: dedup_entries() leaves exactly the entries that are equal to no earlier
\* entry (the first of each equality class), in their previous order, and
\* returns how many entries it removed.
DedupKeepsFirsts ==
    [][last'.op = "dedup_entries" =>
          LET old    == EntriesOf(last'.self)
              new    == playlists'[last'.self].entries.value
              firsts == {i \in 1..Len(old) : \A j \in 1..(i - 1) : ~EntryEq(old[j], old[i])}
              nth(k) == CHOOSE i \in firsts : Cardinality({j \in firsts : j < i}) = k - 1
          IN  /\ Len(new) = Cardinality(firsts)
              /\ \A k \in 1..Len(new) : new[k] = old[nth(k)]
              /\ last'.n = Len(old) - Len(new)
              /\ last'.outcome = "ok"]_vars

\* dedup_entries() returned 1 and left [A, B, C]: A kept, A' gone
DedupKeepsFirstsWitness ==
    /\ last.op = "dedup_entries"
    /\ last.n = 1
    /\ EntriesOf(last.self) = <<MkEntry(1, "a"), MkEntry(2, "b"), MkEntry(4, "c")>>

\* C10: after dedup_entries() no two entries of the receiver are equal, and a
\* dedup_entries() directly after another one on the same receiver returns 0
\* and leaves the entry vector as it was.
DedupIdempotent ==
    [][last'.op = "dedup_entries" =>
          LET new == playlists'[last'.self].entries.value
          IN  /\ \A i, j \in 1..Len(new) : i # j => ~EntryEq(new[i], new[j])
              /\ (last.op = "dedup_entries" /\ last.self = last'.self) =>
                    /\ last'.n = 0
                    /\ new = EntriesOf(last'.self)]_vars

\* a second dedup_entries() returned 0 directly after a first one that had
\* removed entries and left at least two
DedupIdempotentWitness ==
    /\ last.op = "dedup_entries"
    /\ last.prev >= 1
    /\ last.n = 0
    /\ Len(EntriesOf(last.self)) >= 2

\* C11: metadata() returns no metadata or a value that some write_metadata
\* call on the entry was given; when write_metadata and metadata() calls are
\* the only accesses to the cell, it returns the value written last.
MetadataNeverTorn ==
    last.op = "metadata" =>
        LET a == last.self IN
        /\ last.outcome = "ok"
        /\ last.md = None \/ (Len(last.md) = 1 /\ last.md[1] \in plain.written[a])
        /\ (MetadataCell(a).borrow >= 0 /\ plain.latest[a] # None) =>
              last.md = plain.latest[a]

\* metadata() returned the second of two different values written to an entry
MetadataNeverTornWitness ==
    /\ last.op = "metadata"
    /\ last.md # None
    /\ Cardinality(plain.written[last.self]) = 2
    /\ last.md = plain.latest[last.self]

\* C12 as stated: a write_metadata that meets an outstanding borrow of the
\* entry's metadata is turned away with a ContentionError (or waits), never
\* ends the program; a metadata() read is always let through.
OverlappingWriteIsRejected ==
    /\ (last.op = "write_metadata" /\ MetadataCell(last.self).borrow # 0) =>
          /\ last.outcome \in {"ContentionError", "blocked"}
          /\ ~panicked
    /\ last.op = "metadata" => last.outcome = "ok"

\* C13: between container operations no guard on entries or info is held,
\* also after a remove_entry that failed, and no container operation ever
\* ends because it met a guard that an earlier one had left.
GuardsAreScoped ==
    /\ \A c \in Slots : playlists[c].entries.borrow = 0 /\ playlists[c].info.borrow = 0
    /\ (last.outcome = "panic" /\ last.op \in {"get_metadata", "add_entry", "remove_entry",
                                               "count", "merge"}) =>
          /\ last.op = "remove_entry"
          /\ last.index >= Len(EntriesOf(last.self))

\* a remove_entry on a non-empty playlist has failed and left no guard behind
GuardsAreScopedWitness ==
    /\ last.op = "remove_entry" /\ last.outcome = "panic"
    /\ EntriesOf(last.self) # <<>>
    /\ playlists[last.self].entries.borrow = 0

\* C14 as stated: title() of a plain-text entry's metadata is the final path
\* segment of the owning entry's reference.
TitleFallsBackToBasename ==
    last.op = "title" =>
        /\ last.outcome = "ok"
        /\ last.s = Basename(plain.entries[last.self].fname)

\* C15 as stated: entry_num() returns the entry's stored ordinal, filename()
\* its stored reference text, and both return for every entry.
AccessorsReturnStoredFields ==
    /\ last.op = "entry_num" =>
          /\ last.outcome = "ok" /\ ~panicked
          /\ last.n = plain.entries[last.self].num
    /\ last.op = "filename" =>
          /\ last.outcome = "ok" /\ ~panicked
          /\ last.ref = plain.entries[last.self].fname

\* C16: once a merge has bound M, an add_entry or remove_entry on M leaves
\* the entries, count() and info of every other live playlist as they were,
\* and such a call on another playlist leaves M as it was.
MergeResultOwnsCopies ==
    [][last'.op \in {"add_entry", "remove_entry"} =>
          \A d \in Slots \ {last'.self} :
             (Live(d) /\ "M" \in {d, last'.self}) =>
                /\ playlists'[d].state = "live"
                /\ playlists'[d].entries.value = EntriesOf(d)
                /\ Vec_len(playlists'[d].entries.value) = Vec_len(EntriesOf(d))
                /\ playlists'[d].info.value = InfoOf(d)]_vars

\* an add_entry on the merge result M made it differ from the non-empty
\* playlist X it shares a first entry with
MergeResultOwnsCopiesWitness ==
    /\ last.op = "add_entry" /\ last.outcome = "ok"
    /\ last.self = "M"
    /\ Live("X") /\ EntriesOf("X") # <<>>
    /\ EntriesOf("M")[1] = EntriesOf("X")[1]
    /\ Len(EntriesOf("M")) > Len(EntriesOf("X"))

\* C17: get_metadata() returns the info the playlist holds and changes
\* nothing, and get_metadata, add_entry, remove_entry, count and merge leave
\* the info of their receiver (and of every playlist that stays live) as it
\* was, so it stays the info from_parts was given.
InfoIsUntouched ==
    [][last'.op \in {"get_metadata", "add_entry", "remove_entry", "count", "merge"} =>
          /\ \A c \in Slots :
                (Live(c) /\ playlists'[c].state = "live") =>
                   playlists'[c].info = playlists[c].info
          /\ playlists'[last'.self].info = playlists[last'.self].info
          /\ (last'.op = "get_metadata" /\ last'.outcome = "ok") =>
                /\ last'.p = InfoOf(last'.self)
                /\ playlists' = playlists]_vars

\* get_metadata() on a non-empty X returned "p2" after a merge that took Y
\* and bound a longer M
InfoIsUntouchedWitness ==
    /\ last.op = "get_metadata" /\ last.outcome = "ok"
    /\ last.self = "X"
    /\ Live("M") /\ playlists["Y"].state = "moved"
    /\ EntriesOf("X") # <<>>
    /\ Len(EntriesOf("M")) > Len(EntriesOf("X"))
    /\ last.p = "p2"

\* C18: eq on two PlainMetadata values is true exactly when they have the
\* same parent entry by address (their info texts always agree); ne is its
\* negation; eq is reflexive and symmetric; metadata of two distinct entries
\* is unequal even when the entries have the same reference.
PlainMetadataEqIsIdentity ==
    LET m1 == PlainMetadata(last.self)
        m2 == PlainMetadata(last.other)
    IN  /\ last.op = "eq" =>
              /\ last.b <=> (PlainMetadata_info(m1) = PlainMetadata_info(m2)
                               /\ last.self = last.other)
              /\ last.b <=> (last.self = last.other)
              /\ last.b <=> PlainMetadata_eq(m2, m1)
              /\ last.b <=> ~PlainMetadata_ne(m1, m2)
              /\ PlainMetadata_eq(m1, m1)
        /\ last.op = "ne" =>
              /\ last.b <=> (last.self # last.other)
              /\ last.b <=> ~PlainMetadata_eq(m1, m2)

\* eq returned false for the metadata of two entries with the same reference
PlainMetadataEqIsIdentityWitness ==
    /\ last.op = "eq"
    /\ last.self # last.other
    /\ plain.entries[last.self].fname = plain.entries[last.other].fname
    /\ last.b = FALSE

====
